---- MODULE Spec2Model ----
(***************************************************************************)
(* State-machine model of the text annotation component                    *)
(* (st_cogstack_annotate/frontend/public/main.js): the entity list, the    *)
(* node sequence displayed in the text container, the mapping of a mouse   *)
(* selection to source-text offsets, and the handlers that change them;    *)
(* and of the concept search component (unnamed/part_001, an earlier       *)
(* version of which is st_cogstack_concept_search/frontend/public/main.js):*)
(* the concept forest, the search generator, the result list and its       *)
(* highlight, and the handlers of the search input and the result items.   *)
(* Strings are sequences of one-character strings.                         *)
(***************************************************************************)
EXTENDS Integers, Sequences, FiniteSets, TLC

(***************************************************************************)
(* Bounds of the model.                                                    *)
(***************************************************************************)
\* Length of the source text the host delivers.
TextLen == 5
\* Number of entities the host delivers in one render event, at most.
MaxHostEntities == 1
\* The mouse handler adds no entity beyond this many.
MaxEntities == 2
\* Largest offset the direct calls of the interval store use.
MaxPos == 4
\* The mouse handler maps no selection beyond this offset.
MaxOffset == 12
\* Number of concepts in a small forest the host delivers, at most.
MaxConcepts == 2
\* Number of leaves under the inner concept of a large forest, at most.
MaxLeaves == 5

\* The host's text is the first TextLen characters of this pattern.
Pattern ==
  <<"a", " ", "b", "c", " ", "d", " ", "e", "f">>

SourceTexts ==
  {SubSeq(Pattern, 1, TextLen)}

\* The labels the host uses, and the details it gives with each (none with
\* the first).
Labels ==
  {<<"X">>, <<"Y">>}

DetailsOf(label) ==
  IF label = <<"X">> THEN <<>> ELSE <<"d">>

\* The (badge_field, tooltip_field) configurations the host uses.
FieldConfigs ==
  {<<"label", "details">>, <<"details", "label">>}

\* The label and the selected flag the host delivers with an entity.
HostLabels ==
  {<<"X">>}

HostSelected ==
  {FALSE}

(***************************************************************************)
(* Strings                                                                 *)
(***************************************************************************)
Min(a, b) ==
  IF a <= b THEN a ELSE b

Max(a, b) ==
  IF a >= b THEN a ELSE b

\* The characters String.prototype.trim removes (those that occur here).
IsSpace(c) ==
  c \in {" ", "\n"}

\* s.trim() === ""
TrimIsEmpty(s) ==
  \A k \in 1..Len(s) : IsSpace(s[k])

\* FirstNonSpace finding the first character whatever it is: nothing is
\* trimmed.
FirstNonSpaceAny(s) ==
  IF TrimIsEmpty(s) THEN -1 ELSE 0

\* s.split("").findIndex(c => c.trim() !== ""): 0-based, -1 when none.
FirstNonSpace(s) ==
  IF TrimIsEmpty(s) THEN -1
  ELSE (CHOOSE k \in 1..Len(s) :
          /\ ~IsSpace(s[k])
          /\ \A j \in 1..(k - 1) : IsSpace(s[j])) - 1

Reverse(s) ==
  [k \in 1..Len(s) |-> s[Len(s) + 1 - k]]

\* String.prototype.substring(a, b): both clamped to [0, length], swapped
\* when a > b.
Substring(text, a, b) ==
  LET ca == Max(0, Min(a, Len(text)))
      cb == Max(0, Min(b, Len(text)))
  IN  SubSeq(text, Min(ca, cb) + 1, Max(ca, cb))

(***************************************************************************)
(* The interval store                                                      *)
(***************************************************************************)
\* new Entity(start, end, label, details, node, properties); node 0 is
\* "DOM element yet unknown".  An empty details is left undefined.
Entity(start, end, label, details, node, selected) ==
  [start |-> start, end |-> end, label |-> label, details |-> details,
   node |-> node, selected |-> selected]

\* OverlapTest taking a range that only touches e for an overlap.
OverlapTestTouching(e, start, end) ==
  \/ (e.start <= start /\ start <= e.end)
  \/ (e.start <= end /\ end <= e.end)

\* The test of addEntity's loop for one existing entity e.
OverlapTest(e, start, end) ==
  \/ (e.start <= start /\ start < e.end)
  \/ (e.start < end /\ end <= e.end)

RECURSIVE InsertSorted(_, _)
\* One step of a stable sort by start: x goes after every element whose
\* start is not greater.
InsertSorted(sorted, x) ==
  IF sorted = <<>> THEN <<x>>
  ELSE IF sorted[Len(sorted)].start <= x.start THEN Append(sorted, x)
  ELSE Append(InsertSorted(SubSeq(sorted, 1, Len(sorted) - 1), x),
              sorted[Len(sorted)])

\* SortByStart left out: the new entity stays where push put it.
SortByStartOmitted(ents) ==
  ents

RECURSIVE SortByStart(_)
\* _entities.sort((a, b) => a.start - b.start), a stable sort.
SortByStart(ents) ==
  IF ents = <<>> THEN <<>>
  ELSE InsertSorted(SortByStart(SubSeq(ents, 1, Len(ents) - 1)),
                    ents[Len(ents)])

\* addEntity: the value returned and the entity list it leaves.
addEntity(ents, start, end, label, details, selected) ==
  IF \E i \in 1..Len(ents) : OverlapTest(ents[i], start, end)
  THEN [ret |-> FALSE, ents |-> ents]
  ELSE [ret |-> TRUE,
        ents |-> SortByStart(
                   Append(ents, Entity(start, end, label, details, 0, selected)))]

\* removeEntity looking the entity up by containment of (start, end).
removeEntityContaining(ents, start, end) ==
  IF \E i \in 1..Len(ents) : ents[i].start <= start /\ end <= ents[i].end
  THEN LET i == CHOOSE k \in 1..Len(ents) :
                  /\ ents[k].start <= start /\ end <= ents[k].end
                  /\ \A j \in 1..(k - 1) :
                       ~(ents[j].start <= start /\ end <= ents[j].end)
       IN  [ret |-> TRUE,
            ents |-> SubSeq(ents, 1, i - 1) \o SubSeq(ents, i + 1, Len(ents))]
  ELSE [ret |-> FALSE, ents |-> ents]

\* removeEntity: findIndex of the exact (start, end), then splice.
removeEntity(ents, start, end) ==
  IF \E i \in 1..Len(ents) : ents[i].start = start /\ ents[i].end = end
  THEN LET i == CHOOSE k \in 1..Len(ents) :
                  /\ ents[k].start = start /\ ents[k].end = end
                  /\ \A j \in 1..(k - 1) :
                       ~(ents[j].start = start /\ ents[j].end = end)
       IN  [ret |-> TRUE,
            ents |-> SubSeq(ents, 1, i - 1) \o SubSeq(ents, i + 1, Len(ents))]
  ELSE [ret |-> FALSE, ents |-> ents]

\* getStreamlitValue leaving the selected flag out (false for the host).
getStreamlitValueUnselected(ents) ==
  [i \in 1..Len(ents) |->
     [start |-> ents[i].start, end |-> ents[i].end, label |-> ents[i].label,
      details |-> ents[i].details, selected |-> FALSE]]

\* getStreamlitValue: the records sent to the host.
getStreamlitValue(ents) ==
  [i \in 1..Len(ents) |->
     [start |-> ents[i].start, end |-> ents[i].end, label |-> ents[i].label,
      details |-> ents[i].details, selected |-> ents[i].selected]]

(***************************************************************************)
(* The displayed nodes                                                     *)
(***************************************************************************)
\* textContent of a cloned remove button: the white space between the
\* elements of its svg.
RemoveText ==
  <<"\n", " ", " ", "\n", " ", " ", "\n">>

\* document.createTextNode(text)
TextNode(text) ==
  [type |-> "text", text |-> text, id |-> 0, badge |-> <<>>, tooltip |-> <<>>,
   selected |-> FALSE, start |-> 0, end |-> 0]

\* getContentByConfig: the field named by the config variable.
getContentByConfig(configVar, label, details) ==
  IF configVar = "label" THEN label
  ELSE IF configVar = "details" THEN details
  ELSE <<>>

\* createEntityNode never adding the class of a selected entity.
createEntityNodeUnmarked(text, start, end, label, details, selected, bf, tf, id) ==
  [type |-> "entity", text |-> Substring(text, start, end), id |-> id,
   badge |-> getContentByConfig(bf, label, details),
   tooltip |-> getContentByConfig(tf, label, details),
   selected |-> FALSE, start |-> start, end |-> end]

\* createEntityNode: the span with the entity's text, its badge and tooltip
\* (absent when empty) and its remove button, whose handler keeps start and
\* end.  id stands for the identity of the node.
createEntityNode(text, start, end, label, details, selected, bf, tf, id) ==
  [type |-> "entity", text |-> Substring(text, start, end), id |-> id,
   badge |-> getContentByConfig(bf, label, details),
   tooltip |-> getContentByConfig(tf, label, details),
   selected |-> selected, start |-> start, end |-> end]

\* node.textContent: the text of all descendants, in order.
textContent(node) ==
  IF node.type = "text" THEN node.text
  ELSE node.text \o node.badge \o node.tooltip \o RemoveText

\* getNodeText: textContent of a text node, of the first child otherwise.
\* An entity whose text is empty has no text child, and its first child is
\* the first decoration it has.
getNodeText(node) ==
  IF node.type = "text" THEN node.text
  ELSE IF node.text # <<>> THEN node.text
  ELSE IF node.badge # <<>> THEN node.badge
  ELSE IF node.tooltip # <<>> THEN node.tooltip
  ELSE RemoveText

RECURSIVE renderFrom(_, _, _, _, _, _)
\* The loop of renderText from entity k on, i being the end of the last one.
renderFrom(text, ents, bf, tf, k, i) ==
  IF k > Len(ents)
  THEN LET substr == Substring(text, i, Len(text))
       IN  IF Len(substr) > 0 THEN <<TextNode(substr)>> ELSE <<>>
  ELSE LET e == ents[k]
           substr == Substring(text, i, e.start)
           node == createEntityNode(text, e.start, e.end, e.label, e.details,
                                    e.selected, bf, tf, k)
       IN  (IF Len(substr) > 0 THEN <<TextNode(substr)>> ELSE <<>>)
           \o <<node>> \o renderFrom(text, ents, bf, tf, k + 1, e.end)

\* renderText: the children of the node it returns.
renderText(text, ents, bf, tf) ==
  renderFrom(text, ents, bf, tf, 1, 0)

\* renderText stores each created node in its entity (e.node = node).
withNodes(ents) ==
  [k \in 1..Len(ents) |-> [ents[k] EXCEPT !.node = k]]

IsText(nodes, i) ==
  i \in 1..Len(nodes) /\ nodes[i].type = "text"

\* Which branch of removeEntityNode the entity node at i takes.
removeCase(nodes, i) ==
  IF IsText(nodes, i - 1) /\ IsText(nodes, i + 1) THEN "both"
  ELSE IF IsText(nodes, i - 1) THEN "previous"
  ELSE IF IsText(nodes, i + 1) THEN "next"
  ELSE "none"

\* removeEntityNode for a click on the remove button of the node at i.
removeEntityNode(nodes, i) ==
  LET entity == nodes[i]
      entityText == getNodeText(entity)
      n == Len(nodes)
  IN  CASE removeCase(nodes, i) = "both" ->
             SubSeq(nodes, 1, i - 2)
             \o <<TextNode(nodes[i - 1].text \o textContent(entity)
                           \o nodes[i + 1].text)>>
             \o SubSeq(nodes, i + 2, n)
        [] removeCase(nodes, i) = "previous" ->
             SubSeq(nodes, 1, i - 2)
             \o <<TextNode(nodes[i - 1].text \o entityText)>>
             \o SubSeq(nodes, i + 1, n)
        [] removeCase(nodes, i) = "next" ->
             SubSeq(nodes, 1, i - 1)
             \o <<TextNode(entityText \o nodes[i + 1].text)>>
             \o SubSeq(nodes, i + 2, n)
        [] OTHER ->
             SubSeq(nodes, 1, i - 1) \o <<TextNode(entityText)>>
             \o SubSeq(nodes, i + 1, n)

(***************************************************************************)
(* The selection mapper                                                    *)
(***************************************************************************)
\* A container of a selection end: the child idx of the text container
\* itself, or (inner) the text node inside the entity node idx.
Container(idx, inner) ==
  [idx |-> idx, inner |-> inner]

RECURSIVE SumText(_, _, _)
\* Sum of getNodeText(...).length over the children from..to.
SumText(nodes, from, to) ==
  IF from > to THEN 0
  ELSE Len(getNodeText(nodes[to])) + SumText(nodes, from, to - 1)

\* The text the container holds.
containerText(nodes, c) ==
  nodes[c.idx].text

\* getRealSelectionRange.  The text node inside an entity is its first
\* child, so it has no previous sibling.
getRealSelectionRange(nodes, sc, so, ec, eo) ==
  LET start1 == so + (IF sc.inner THEN 0 ELSE SumText(nodes, 1, sc.idx - 1))
      end == eo + (start1 - so)
      between ==
        IF sc = ec \/ ec.inner THEN 0
        ELSE IF ~sc.inner /\ sc.idx < ec.idx
             THEN SumText(nodes, sc.idx + 1, ec.idx - 1)
             ELSE SumText(nodes, 1, ec.idx - 1)
  IN  [start |-> start1 + between, end |-> end]

(***************************************************************************)
(* The component                                                           *)
(***************************************************************************)
VARIABLES
  sourceText,           \* _sourceText
  currentLabel,         \* _currentLabel
  currentLabelDetails,  \* _currentLabelDetails
  badgeField,           \* _badgeField
  tooltipField,         \* _tooltipField
  entities,             \* _entities
  dom,                  \* the children of _textElem
  committed,            \* what the last handler passed to setComponentValue
  last                  \* the last handler or call: its arguments and result

\* The state of the concept search component.
VARIABLES
  rendered,             \* window.rendered
  sourceConcepts,       \* _sourceConcepts
  lastSearchText,       \* _lastSearchText
  lastSearchTerms,      \* _lastSearchTerms
  lastSelected,         \* _lastSelected
  lastResults,          \* _lastResults; the children of _resultList show them
  currentListItem,      \* _currentListItem
  hoveredListItem,      \* _hoveredListItem
  indexHidden,          \* _indexHidden.value
  listHidden,           \* _resultWrapper.style.display == "none"
  chosenLabel,          \* _chosenLabel.textContent
  searchCommitted,      \* what the last handler passed to setComponentValue
  searchLast            \* the last handler, and the concepts its search tested

annotateVars ==
  <<sourceText, currentLabel, currentLabelDetails, badgeField, tooltipField,
    entities, dom, committed, last>>

searchVars ==
  <<rendered, sourceConcepts, lastSearchText, lastSearchTerms, lastSelected,
    lastResults, currentListItem, hoveredListItem, indexHidden, listHidden,
    chosenLabel, searchCommitted, searchLast>>

vars ==
  <<sourceText, currentLabel, currentLabelDetails, badgeField, tooltipField,
    entities, dom, committed, last,
    rendered, sourceConcepts, lastSearchText, lastSearchTerms, lastSelected,
    lastResults, currentListItem, hoveredListItem, indexHidden, listHidden,
    chosenLabel, searchCommitted, searchLast>>

\* The last handler committed nothing.
NoCommit ==
  [sent |-> FALSE, value |-> <<>>]

\* Streamlit.setComponentValue(value)
setComponentValue(value) ==
  [sent |-> TRUE, value |-> value]

\* A handler or call with the range it worked on.
Last(op, ret, start, end) ==
  [op |-> op, ret |-> ret, start |-> start, end |-> end,
   trimmedBoth |-> FALSE, delivered |-> <<>>, discarded |-> 0]

\* The mouse handler: the range it passed to addEntity, and whether that
\* range is shorter on both sides than the one getRealSelectionRange gave it.
LastMouseUp(ret, range, start, end) ==
  [Last("mouseup", ret, start, end)
     EXCEPT !.trimmedBoth = start > range.start /\ end < range.end]

\* The render handler: the entities the host delivered and the number of
\* entities the handler dropped with "_entities = []".
LastRender(delivered, discarded) ==
  [Last("render", FALSE, 0, 0) EXCEPT !.delivered = delivered,
                                      !.discarded = discarded]

\* The guard of the mouse handler without its test of selText.trim().
selectionIgnoredUntrimmed(selText, anchor, extent) ==
  Len(selText) <= 0 \/ anchor # extent

\* The guard of the mouse handler: the selection is dropped.
selectionIgnored(selText, anchor, extent) ==
  TrimIsEmpty(selText) \/ Len(selText) <= 0 \/ anchor # extent

\* commitIf without the test of valid.
commitAlways(valid, ents) ==
  setComponentValue(getStreamlitValue(ents))

\* if (valid) { Streamlit.setComponentValue(getStreamlitValue()) }
commitIf(valid, ents) ==
  IF valid THEN setComponentValue(getStreamlitValue(ents)) ELSE NoCommit

(***************************************************************************)
(* Values of the concept search component's state                          *)
(***************************************************************************)
\* A string variable that is null.
NullText ==
  [null |-> TRUE, val |-> <<>>]

\* A string variable that holds text.
Text(text) ==
  [null |-> FALSE, val |-> text]

\* No list item (null).  A list item is the index it was created with
\* (dataset.index), counted from 0.
NoItem ==
  -1

\* _indexHidden.value when it is empty: setting it to null empties it.
NoIndex ==
  -1

\* A concept variable that is null or undefined.  A concept a variable
\* holds is the Concept object at a path of the forest (the positions from
\* the root down, counted from 1), with the fields the component reads.
NoConcept ==
  [path |-> <<>>, code |-> <<>>, label |-> <<>>]

\* SearchResult with the first result as the selected concept.
SearchResultFirst(searchText, searchTerms, results, selected) ==
  [searchText |-> searchText, searchTerms |-> searchTerms,
   results |-> [k \in 1..Len(results) |->
                  [code |-> results[k].code, label |-> results[k].label]],
   selected |-> IF Len(results) > 0
                THEN [code |-> results[1].code, label |-> results[1].label]
                ELSE [code |-> selected.code, label |-> selected.label]]

\* new SearchResult(searchText, searchTerms, results, selected): code and
\* label of each result and of the selected concept.
SearchResult(searchText, searchTerms, results, selected) ==
  [searchText |-> searchText, searchTerms |-> searchTerms,
   results |-> [k \in 1..Len(results) |->
                  [code |-> results[k].code, label |-> results[k].label]],
   selected |-> [code |-> selected.code, label |-> selected.label]]

\* The last handler of the search component committed nothing.
NoSearchCommit ==
  [sent |-> FALSE, value |-> SearchResult(<<>>, <<>>, <<>>, NoConcept)]

\* A handler of the search component, and the number of concepts the
\* search it ran tested.
SearchLast(op, tested) ==
  [op |-> op, tested |-> tested]

\* The search component after its script has run.
SearchInit ==
  /\ rendered = FALSE
  /\ sourceConcepts = <<>>
  /\ lastSearchText = NullText
  /\ lastSearchTerms = <<>>
  /\ lastSelected = NoConcept
  /\ lastResults = <<>>
  /\ currentListItem = NoItem
  /\ hoveredListItem = NoItem
  /\ indexHidden = NoIndex
  /\ listHidden = FALSE
  /\ chosenLabel = <<>>
  /\ searchCommitted = NoSearchCommit
  /\ searchLast = SearchLast("load", 0)

Init ==
  /\ sourceText = <<>>
  /\ currentLabel = <<>>
  /\ currentLabelDetails = <<>>
  /\ badgeField = "label"
  /\ tooltipField = "details"
  /\ entities = <<>>
  /\ dom = <<>>
  /\ committed = NoCommit
  /\ last = Last("load", FALSE, 0, 0)
  /\ SearchInit

\* The entities a host may deliver for a text of length n.
HostEntities(n) ==
  {[start |-> r[1], end |-> r[2], label |-> l, details |-> DetailsOf(l),
    selected |-> b] :
     r \in {p \in (0..n) \X (0..n) : p[1] < p[2]}, l \in HostLabels,
     b \in HostSelected}

RECURSIVE SeqsUpTo(_, _)
\* The sequences over S of length at most n.
SeqsUpTo(S, n) ==
  IF n = 0 THEN {<<>>}
  ELSE LET shorter == SeqsUpTo(S, n - 1)
       IN  shorter \cup {Append(q, x) : q \in shorter, x \in S}

RECURSIVE addAll(_, _, _)
\* entities.forEach(e => addEntity(...)) from the k-th delivered entity on.
addAll(ents, delivered, k) ==
  IF k > Len(delivered) THEN ents
  ELSE addAll(addEntity(ents, delivered[k].start, delivered[k].end,
                        delivered[k].label, delivered[k].details,
                        delivered[k].selected).ents,
              delivered, k + 1)

\* onRender without "_entities = []": the delivered entities are added to
\* those there are.
onRenderKeeping(label, text, delivered, bf, tf) ==
  LET ents == addAll(entities, delivered, 1)
  IN  /\ sourceText' = text
      /\ currentLabel' = label
      /\ currentLabelDetails' = DetailsOf(label)
      /\ badgeField' = bf
      /\ tooltipField' = tf
      /\ entities' = withNodes(ents)
      /\ dom' = renderText(text, ents, bf, tf)
      /\ committed' = NoCommit
      /\ last' = LastRender(delivered, 0)
      /\ UNCHANGED searchVars

\* onRender: the host delivers label, text, entities and the configuration.
onRender(label, text, delivered, bf, tf) ==
  LET ents == addAll(<<>>, delivered, 1)
  IN  /\ sourceText' = text
      /\ currentLabel' = label
      /\ currentLabelDetails' = DetailsOf(label)
      /\ badgeField' = bf
      /\ tooltipField' = tf
      /\ entities' = withNodes(ents)
      /\ dom' = renderText(text, ents, bf, tf)
      /\ committed' = NoCommit
      /\ last' = LastRender(delivered, Len(entities))
      /\ UNCHANGED searchVars

\* The containers in which a selection can start or end: the text nodes of
\* the text container and the text nodes inside its entities.
Containers(nodes) ==
  {Container(i, FALSE) : i \in {k \in 1..Len(nodes) : nodes[k].type = "text"}}
  \cup
  {Container(i, TRUE) :
     i \in {k \in 1..Len(nodes) :
              nodes[k].type = "entity" /\ nodes[k].text # <<>>}}

\* The range of the selection without the white space selText begins and
\* ends with: range moved by findIndex of the first character that trim()
\* keeps, from either side.
trimmedRange(range, selText) ==
  [start |-> range.start + FirstNonSpace(selText),
   end |-> range.end - FirstNonSpace(Reverse(selText))]

\* _textElem.onmouseup with the selection from offset so of container
\* anchor to offset eo of container extent.
onmouseup(anchor, extent, so, eo) ==
  LET selText == SubSeq(containerText(dom, anchor), so + 1, eo)
  IN  IF selectionIgnored(selText, anchor, extent)
      THEN /\ last' = Last("ignored", FALSE, 0, 0)
           /\ committed' = NoCommit
           /\ UNCHANGED <<searchVars,
                          sourceText, currentLabel, currentLabelDetails,
                          badgeField, tooltipField, entities, dom>>
      ELSE LET range == getRealSelectionRange(dom, anchor, so, extent, eo)
               start == trimmedRange(range, selText).start
               end == trimmedRange(range, selText).end
               added == addEntity(entities, start, end, currentLabel,
                                  currentLabelDetails, FALSE)
           IN  /\ end <= MaxOffset
               /\ added.ret => Len(entities) < MaxEntities
               /\ last' = LastMouseUp(added.ret, range, start, end)
               /\ entities' = withNodes(added.ents)
               /\ dom' = renderText(sourceText, added.ents, badgeField,
                                    tooltipField)
               /\ committed' = commitIf(added.ret, added.ents)
               /\ UNCHANGED <<searchVars,
                              sourceText, currentLabel, currentLabelDetails,
                              badgeField, tooltipField>>

\* entityRemove.onclick of the entity node at i: removeEntityNode, then
\* removeEntity with the start and end the node was created with.
entityRemoveClick(i) ==
  LET removed == removeEntity(entities, dom[i].start, dom[i].end)
  IN  /\ dom[i].type = "entity"
      /\ dom' = removeEntityNode(dom, i)
      /\ entities' = removed.ents
      /\ committed' = commitIf(removed.ret, removed.ents)
      /\ last' = Last("remove", removed.ret, dom[i].start, dom[i].end)
      /\ UNCHANGED <<searchVars,
                     sourceText, currentLabel, currentLabelDetails,
                     badgeField, tooltipField>>

\* onEntityClick on the entity node at i or on its badge.
onEntityClick(i) ==
  /\ dom[i].type = "entity"
  /\ IF dom[i].badge = <<>>
     THEN /\ committed' = NoCommit
          /\ UNCHANGED <<entities, dom>>
     ELSE LET label == dom[i].badge
              toggled == {entities[k].node :
                            k \in {j \in 1..Len(entities) :
                                     entities[j].label = label}}
          IN  /\ entities' =
                   [k \in 1..Len(entities) |->
                      IF entities[k].label = label
                      THEN [entities[k] EXCEPT !.selected = ~@]
                      ELSE entities[k]]
              /\ dom' =
                   [k \in 1..Len(dom) |->
                      IF dom[k].type = "entity" /\ dom[k].id \in toggled
                      THEN [dom[k] EXCEPT !.selected = ~@]
                      ELSE dom[k]]
              /\ committed' = setComponentValue(getStreamlitValue(entities'))
  /\ last' = Last("click", dom[i].badge # <<>>, 0, 0)
  /\ UNCHANGED <<searchVars,
                 sourceText, currentLabel, currentLabelDetails, badgeField,
                 tooltipField>>

Render ==
  \E label \in Labels, text \in SourceTexts, cfg \in FieldConfigs :
    \E delivered \in SeqsUpTo(HostEntities(Len(text)), MaxHostEntities) :
      onRender(label, text, delivered, cfg[1], cfg[2])

MouseUp ==
  \E anchor \in Containers(dom), extent \in Containers(dom) :
    IF anchor = extent
    THEN \E so \in 0..Len(containerText(dom, anchor)) :
           \E eo \in so..Len(containerText(dom, anchor)) :
             onmouseup(anchor, extent, so, eo)
    ELSE onmouseup(anchor, extent, 0, 1)

RemoveClick ==
  \E i \in 1..Len(dom) : entityRemoveClick(i)

EntityClick ==
  \E i \in 1..Len(dom) : onEntityClick(i)

Next ==
  \/ Render
  \/ MouseUp
  \/ RemoveClick
  \/ EntityClick

Spec ==
  Init /\ [][Next]_vars

(***************************************************************************)
(* The interval store under direct calls: any sequence of addEntity and    *)
(* removeEntity calls, as onRender's forEach, the mouse handler and the    *)
(* remove buttons issue them.                                              *)
(***************************************************************************)
\* The ranges the direct calls use.
Ranges ==
  {r \in (0..MaxPos) \X (0..MaxPos) : r[1] < r[2]}

callAddEntity(start, end, label) ==
  LET added == addEntity(entities, start, end, label, DetailsOf(label), FALSE)
  IN  /\ entities' = added.ents
      /\ last' = Last("addEntity", added.ret, start, end)
      /\ UNCHANGED <<searchVars,
                     sourceText, currentLabel, currentLabelDetails,
                     badgeField, tooltipField, dom, committed>>

callRemoveEntity(start, end) ==
  LET removed == removeEntity(entities, start, end)
  IN  /\ entities' = removed.ents
      /\ last' = Last("removeEntity", removed.ret, start, end)
      /\ UNCHANGED <<searchVars,
                     sourceText, currentLabel, currentLabelDetails,
                     badgeField, tooltipField, dom, committed>>

StoreAdd ==
  \E r \in Ranges, label \in Labels : callAddEntity(r[1], r[2], label)

StoreRemove ==
  \E r \in Ranges : callRemoveEntity(r[1], r[2])

StoreNext ==
  \/ StoreAdd
  \/ StoreRemove

StoreSpec ==
  Init /\ [][StoreNext]_vars

(***************************************************************************)
(* The concept search component                                            *)
(***************************************************************************)
\* The shortest text that is searched for.
MIN_SEARCH_LEN ==
  2

\* The largest number of results kept.
MAX_RESULTS ==
  10

\* new Concept(code, label, children); metadata and properties only change
\* how a result looks.
Concept(code, label, children) ==
  [code |-> code, label |-> label, children |-> children]

RECURSIVE fromDict(_)
\* Concept.fromDict(c)
fromDict(c) ==
  Concept(c.code, c.label,
          [k \in 1..Len(c.children) |-> fromDict(c.children[k])])

\* The kinds of concept the host delivers.  For the text "ab" the first
\* matches by its code, the second by its label only, and the third does
\* not match: its code holds "ab" but not at the start, its label "Ab".
CodeHit ==
  [code |-> <<"a", "b">>, label |-> <<"x", "a">>]

LabelHit ==
  [code |-> <<"x">>, label |-> <<"c", "a", "b">>]

Miss ==
  [code |-> <<"b", "a", "b">>, label |-> <<"A", "b">>]

Kinds ==
  {CodeHit, LabelHit, Miss}

\* The dictionary of a concept of the given kind.
Dict(kind, children) ==
  [code |-> kind.code, label |-> kind.label, children |-> children]

RECURSIVE ForestsOfSize(_)
\* The forests of exactly n concepts.
ForestsOfSize(n) ==
  IF n = 0 THEN {<<>>}
  ELSE UNION {{<<Dict(kind, below)>> \o rest :
                 kind \in Kinds, below \in ForestsOfSize(a),
                 rest \in ForestsOfSize(n - 1 - a)} : a \in 0..(n - 1)}

\* n leaves of one kind.
Leaves(kind, n) ==
  [k \in 1..n |-> Dict(kind, <<>>)]

\* A forest with 7 + n matches of "ab", three levels deep.
LargeForest(n) ==
  <<Dict(Miss, Leaves(CodeHit, 4)),
    Dict(CodeHit, <<Dict(LabelHit, Leaves(CodeHit, n))>>),
    Dict(LabelHit, <<>>)>>

\* The forests the host delivers: the small ones, and a large one, which
\* has 12 matches of "ab" and 10 of "xa" when MaxLeaves is 5.
Forests ==
  UNION {ForestsOfSize(n) : n \in 0..MaxConcepts}
  \cup {LargeForest(MaxLeaves)}

\* The texts typed into the search input.
Queries ==
  {<<>>, <<"a">>, <<"a", "b">>, <<"x", "a">>, <<"A", "b">>,
   <<"a", "b", "c">>}

\* String.prototype.startsWith
StartsWith(s, t) ==
  Len(t) <= Len(s) /\ SubSeq(s, 1, Len(t)) = t

\* String.prototype.includes
Includes(s, t) ==
  \E k \in 0..(Len(s) - Len(t)) : SubSeq(s, k + 1, k + Len(t)) = t

RECURSIVE Split(_)
\* s.split(" ")
Split(s) ==
  IF \A k \in 1..Len(s) : s[k] # " " THEN <<s>>
  ELSE LET k == CHOOSE i \in 1..Len(s) :
                  s[i] = " " /\ \A j \in 1..(i - 1) : s[j] # " "
       IN  <<SubSeq(s, 1, k - 1)>> \o Split(SubSeq(s, k + 1, Len(s)))

\* matchConcept
matchConcept(searchText, concept) ==
  StartsWith(concept.code, searchText) \/ Includes(concept.label, searchText)

RECURSIVE findNextResultSkipping(_, _, _, _)
\* findNextResultFrom not searching the children of a concept it yields.
findNextResultSkipping(searchText, concepts, parent, i) ==
  IF i > Len(concepts) THEN <<>>
  ELSE LET concept == concepts[i]
           path == Append(parent, i)
       IN  <<[path |-> path, code |-> concept.code, label |-> concept.label,
              yield |-> matchConcept(searchText, concept)]>>
           \o (IF Len(concept.children) > 0
                  /\ ~matchConcept(searchText, concept)
               THEN findNextResultSkipping(searchText, concept.children,
                                           path, 1)
               ELSE <<>>)
           \o findNextResultSkipping(searchText, concepts, parent, i + 1)

RECURSIVE findNextResultFrom(_, _, _, _)
\* The loop of findNextResult from concepts[i] on, parent being the path of
\* the concept whose children concepts are: the concepts it tests, in the
\* order in which it tests them, and whether it yields each.
findNextResultFrom(searchText, concepts, parent, i) ==
  IF i > Len(concepts) THEN <<>>
  ELSE LET concept == concepts[i]
           path == Append(parent, i)
       IN  <<[path |-> path, code |-> concept.code, label |-> concept.label,
              yield |-> matchConcept(searchText, concept)]>>
           \o (IF Len(concept.children) > 0
               THEN findNextResultFrom(searchText, concept.children, path, 1)
               ELSE <<>>)
           \o findNextResultFrom(searchText, concepts, parent, i + 1)

\* The generator findNextResult(searchText, concepts), as the steps it
\* takes when it is run to its end.
findNextResult(searchText, concepts) ==
  findNextResultFrom(searchText, concepts, <<>>, 1)

RECURSIVE genNext(_, _)
\* gen.next() of a generator that has taken pos steps: the number of steps
\* taken when it yields next, and one more than there are when it ends
\* without a yield (done).
genNext(steps, pos) ==
  IF pos >= Len(steps) THEN Len(steps) + 1
  ELSE IF steps[pos + 1].yield THEN pos + 1
  ELSE genNext(steps, pos + 1)

\* nextResult.value: the concept yielded by a step.
Yielded(step) ==
  [path |-> step.path, code |-> step.code, label |-> step.label]

RECURSIVE pullOneMore(_, _, _)
\* pull keeping one result more than MAX_RESULTS.
pullOneMore(steps, pos, results) ==
  IF pos <= Len(steps) /\ Len(results) <= MAX_RESULTS
  THEN pullOneMore(steps, genNext(steps, pos),
                   Append(results, Yielded(steps[pos])))
  ELSE [results |-> results, pos |-> pos]

RECURSIVE pull(_, _, _)
\* The while loop of the input handler, nextResult being the yield of step
\* pos (done when pos is beyond the steps): the results, and the steps the
\* generator has taken when the loop ends.
pull(steps, pos, results) ==
  IF pos <= Len(steps) /\ Len(results) < MAX_RESULTS
  THEN pull(steps, genNext(steps, pos), Append(results, Yielded(steps[pos])))
  ELSE [results |-> results, pos |-> pos]

\* createResultItem(concept, index).textContent
itemText(concept) ==
  concept.code \o <<" ", "|", " ">> \o concept.label

\* The last child of the result list in place of the first.
firstChildLast(results) ==
  IF Len(results) > 0 THEN Len(results) - 1 ELSE NoItem

\* _resultList.firstChild
firstChild(results) ==
  IF Len(results) > 0 THEN 0 ELSE NoItem

\* nextSibling going round to the first item after the last.
nextSiblingWrapping(item, results) ==
  IF item + 1 < Len(results) THEN item + 1 ELSE 0

\* item.nextSibling
nextSibling(item, results) ==
  IF item + 1 < Len(results) THEN item + 1 ELSE NoItem

\* item.previousSibling
previousSibling(item) ==
  IF item > 0 THEN item - 1 ELSE NoItem

\* selectListItem leaving the highlight where it is when there is no new
\* item.
selectListItemKeeping(current, index, newListItem) ==
  [current |-> IF newListItem # NoItem THEN newListItem ELSE current,
   index |-> IF newListItem # NoItem THEN newListItem ELSE index]

\* selectListItem(newListItem): _currentListItem and _indexHidden.value
\* after it.
selectListItem(current, index, newListItem) ==
  [current |-> newListItem,
   index |-> IF newListItem # NoItem THEN newListItem
             ELSE IF current # NoItem THEN NoIndex
             ELSE index]

\* onRender of the search component: only the first event is handled.
searchOnRender(concepts) ==
  /\ IF rendered
     THEN UNCHANGED <<rendered, sourceConcepts>>
     ELSE /\ rendered' = TRUE
          /\ sourceConcepts' = [k \in 1..Len(concepts) |-> fromDict(concepts[k])]
  /\ searchCommitted' = NoSearchCommit
  /\ searchLast' = SearchLast("render", 0)
  /\ UNCHANGED <<lastSearchText, lastSearchTerms, lastSelected, lastResults,
                 currentListItem, hoveredListItem, indexHidden, listHidden,
                 chosenLabel, annotateVars>>

\* _searchInput.oninput with value in the input.
oninput(value) ==
  /\ IF lastSearchText.null \/ value # lastSearchText.val
     THEN LET steps == findNextResult(value, sourceConcepts)
              pulled == IF Len(value) >= MIN_SEARCH_LEN
                        THEN pull(steps, genNext(steps, 0), <<>>)
                        ELSE [results |-> <<>>, pos |-> 0]
              selected == selectListItem(currentListItem, NoIndex,
                                         firstChild(pulled.results))
          IN  /\ lastSearchText' = Text(value)
              /\ lastSearchTerms' = Split(value)
              /\ lastResults' = pulled.results
              /\ currentListItem' = selected.current
              /\ indexHidden' = selected.index
              /\ searchLast' = SearchLast("input",
                                          Min(pulled.pos, Len(steps)))
     ELSE /\ searchLast' = SearchLast("input", 0)
          /\ UNCHANGED <<lastSearchText, lastSearchTerms, lastResults,
                         currentListItem, indexHidden>>
  /\ searchCommitted' = NoSearchCommit
  /\ UNCHANGED <<rendered, sourceConcepts, lastSelected, hoveredListItem,
                 listHidden, chosenLabel, annotateVars>>

\* selectNextListItem
selectNextListItem ==
  IF listHidden
  THEN listHidden' = FALSE /\ UNCHANGED <<currentListItem, indexHidden>>
  ELSE LET newListItem == IF currentListItem = NoItem
                          THEN firstChild(lastResults)
                          ELSE nextSibling(currentListItem, lastResults)
           selected == selectListItem(currentListItem, indexHidden,
                                      newListItem)
       IN  IF currentListItem = NoItem \/ newListItem # NoItem
           THEN /\ currentListItem' = selected.current
                /\ indexHidden' = selected.index
                /\ UNCHANGED listHidden
           ELSE UNCHANGED <<currentListItem, indexHidden, listHidden>>

\* selectPrevListItem going round from the first result to the last.
selectPrevListItemWrapping ==
  IF ~listHidden /\ currentListItem # NoItem
  THEN LET newListItem == IF previousSibling(currentListItem) # NoItem
                          THEN previousSibling(currentListItem)
                          ELSE Len(lastResults) - 1
           selected == selectListItem(currentListItem, indexHidden,
                                      newListItem)
       IN  /\ currentListItem' = selected.current
           /\ indexHidden' = selected.index
           /\ UNCHANGED listHidden
  ELSE UNCHANGED <<currentListItem, indexHidden, listHidden>>

\* selectPrevListItem
selectPrevListItem ==
  IF ~listHidden /\ currentListItem # NoItem
     /\ previousSibling(currentListItem) # NoItem
  THEN LET selected == selectListItem(currentListItem, indexHidden,
                                      previousSibling(currentListItem))
       IN  /\ currentListItem' = selected.current
           /\ indexHidden' = selected.index
           /\ UNCHANGED listHidden
  ELSE UNCHANGED <<currentListItem, indexHidden, listHidden>>

\* confirmCurrentItem taking the first result whatever is highlighted.
confirmCurrentItemFirst ==
  IF currentListItem # NoItem
  THEN LET found == indexHidden \in 0..(Len(lastResults) - 1)
           concept == IF found THEN lastResults[1] ELSE NoConcept
       IN  /\ lastSelected' = concept
           /\ chosenLabel' = itemText(lastResults[currentListItem + 1])
           /\ listHidden' = TRUE
           /\ searchCommitted' =
                IF found
                THEN [sent |-> TRUE,
                      value |-> SearchResult(lastSearchText.val,
                                             lastSearchTerms, lastResults,
                                             concept)]
                ELSE NoSearchCommit
  ELSE /\ searchCommitted' = NoSearchCommit
       /\ UNCHANGED <<lastSelected, chosenLabel, listHidden>>

\* confirmCurrentItem.  _lastResults[_indexHidden.value] is undefined when
\* the index is empty, and new SearchResult then throws before anything is
\* committed.
confirmCurrentItem ==
  IF currentListItem # NoItem
  THEN LET found == indexHidden \in 0..(Len(lastResults) - 1)
           concept == IF found THEN lastResults[indexHidden + 1]
                      ELSE NoConcept
       IN  /\ lastSelected' = concept
           /\ chosenLabel' = itemText(lastResults[currentListItem + 1])
           /\ listHidden' = TRUE
           /\ searchCommitted' =
                IF found
                THEN [sent |-> TRUE,
                      value |-> SearchResult(lastSearchText.val,
                                             lastSearchTerms, lastResults,
                                             concept)]
                ELSE NoSearchCommit
  ELSE /\ searchCommitted' = NoSearchCommit
       /\ UNCHANGED <<lastSelected, chosenLabel, listHidden>>

\* The keys _searchInput.onkeydown handles ("Up" and "Down" are other names
\* of the arrow keys).
KEYS_NAV ==
  {"ArrowUp", "ArrowDown", "Enter", "Escape"}

\* _searchInput.onkeydown
onkeydown(key) ==
  /\ CASE key = "ArrowUp" ->
            /\ selectPrevListItem
            /\ searchCommitted' = NoSearchCommit
            /\ UNCHANGED <<lastSelected, chosenLabel>>
       [] key = "ArrowDown" ->
            /\ selectNextListItem
            /\ searchCommitted' = NoSearchCommit
            /\ UNCHANGED <<lastSelected, chosenLabel>>
       [] key = "Enter" ->
            /\ confirmCurrentItem
            /\ UNCHANGED <<currentListItem, indexHidden>>
       [] OTHER ->
            /\ listHidden' = TRUE
            /\ searchCommitted' = NoSearchCommit
            /\ UNCHANGED <<lastSelected, chosenLabel, currentListItem,
                           indexHidden>>
  /\ searchLast' = SearchLast(key, 0)
  /\ UNCHANGED <<rendered, sourceConcepts, lastSearchText, lastSearchTerms,
                 lastResults, hoveredListItem, annotateVars>>

\* _searchInput.onclick
onclick ==
  /\ listHidden' = FALSE
  /\ searchCommitted' = NoSearchCommit
  /\ searchLast' = SearchLast("click", 0)
  /\ UNCHANGED <<rendered, sourceConcepts, lastSearchText, lastSearchTerms,
                 lastSelected, lastResults, currentListItem, hoveredListItem,
                 indexHidden, chosenLabel, annotateVars>>

\* onblur hiding the list whether or not a result is hovered.
onblurAlways ==
  /\ listHidden' = TRUE
  /\ searchCommitted' = NoSearchCommit
  /\ searchLast' = SearchLast("blur", 0)
  /\ UNCHANGED <<rendered, sourceConcepts, lastSearchText, lastSearchTerms,
                 lastSelected, lastResults, currentListItem, hoveredListItem,
                 indexHidden, chosenLabel, annotateVars>>

\* _searchInput.onblur
onblur ==
  /\ listHidden' = IF hoveredListItem = NoItem THEN TRUE ELSE listHidden
  /\ searchCommitted' = NoSearchCommit
  /\ searchLast' = SearchLast("blur", 0)
  /\ UNCHANGED <<rendered, sourceConcepts, lastSearchText, lastSearchTerms,
                 lastSelected, lastResults, currentListItem, hoveredListItem,
                 indexHidden, chosenLabel, annotateVars>>

\* resultItemMouseOver highlighting the item without storing its index.
resultItemMouseOverNoIndex(item) ==
  /\ ~listHidden
  /\ item \in 0..(Len(lastResults) - 1)
  /\ currentListItem' = item
  /\ hoveredListItem' = item
  /\ searchCommitted' = NoSearchCommit
  /\ searchLast' = SearchLast("mouseover", 0)
  /\ UNCHANGED <<rendered, sourceConcepts, lastSearchText,
                 lastSearchTerms, lastSelected, lastResults, listHidden,
                 indexHidden, chosenLabel, annotateVars>>

\* resultItemMouseOver on the item with the given index.
resultItemMouseOver(item) ==
  LET selected == selectListItem(currentListItem, indexHidden, item)
  IN  /\ ~listHidden
      /\ item \in 0..(Len(lastResults) - 1)
      /\ currentListItem' = selected.current
      /\ indexHidden' = selected.index
      /\ hoveredListItem' = item
      /\ searchCommitted' = NoSearchCommit
      /\ searchLast' = SearchLast("mouseover", 0)
      /\ UNCHANGED <<rendered, sourceConcepts, lastSearchText,
                     lastSearchTerms, lastSelected, lastResults, listHidden,
                     chosenLabel, annotateVars>>

\* resultItemMouseOut
resultItemMouseOut ==
  /\ hoveredListItem # NoItem
  /\ hoveredListItem' = NoItem
  /\ searchCommitted' = NoSearchCommit
  /\ searchLast' = SearchLast("mouseout", 0)
  /\ UNCHANGED <<rendered, sourceConcepts, lastSearchText, lastSearchTerms,
                 lastSelected, lastResults, currentListItem, indexHidden,
                 listHidden, chosenLabel, annotateVars>>

\* resultItemClick on the item with the given index.
resultItemClick(item) ==
  /\ ~listHidden
  /\ item \in 0..(Len(lastResults) - 1)
  /\ confirmCurrentItem
  /\ hoveredListItem' = NoItem
  /\ searchLast' = SearchLast("itemclick", 0)
  /\ UNCHANGED <<rendered, sourceConcepts, lastSearchText, lastSearchTerms,
                 lastResults, currentListItem, indexHidden, annotateVars>>

SearchRender ==
  \E concepts \in Forests : searchOnRender(concepts)

Input ==
  \E value \in Queries : oninput(value)

KeyDown ==
  \E key \in KEYS_NAV : onkeydown(key)

InputClick ==
  onclick

Blur ==
  onblur

ItemMouseOver ==
  \E item \in 0..(MAX_RESULTS - 1) : resultItemMouseOver(item)

ItemMouseOut ==
  resultItemMouseOut

ItemClick ==
  \E item \in 0..(MAX_RESULTS - 1) : resultItemClick(item)

SearchNext ==
  \/ SearchRender
  \/ Input
  \/ KeyDown
  \/ InputClick
  \/ Blur
  \/ ItemMouseOver
  \/ ItemMouseOut
  \/ ItemClick

SearchSpec ==
  Init /\ [][SearchNext]_vars

(***************************************************************************)
(* Properties                                                              *)
(***************************************************************************)
\* The half-open ranges [s1, e1) and [s2, e2) share no character position.
Disjoint(s1, e1, s2, e2) ==
  e1 <= s2 \/ e2 <= s1

\* Entity e shares a character position with [start, end).
Intersects(e, start, end) ==
  ~Disjoint(e.start, e.end, start, end)

\* C1: after any sequence of addEntity calls, any two distinct entities e1,
\* e2 satisfy e1.end <= e2.start or e2.end <= e1.start.
C1_NoOverlap ==
  \A i \in 1..Len(entities) : \A j \in 1..Len(entities) :
    i # j => Disjoint(entities[i].start, entities[i].end,
                      entities[j].start, entities[j].end)

\* The source-text offset at which the text of container c begins: an
\* entity's text begins at the entity's start, a text node where the nearest
\* entity node before it ends (at 0 when there is none).
LogicalStart(nodes, c) ==
  IF c.inner THEN nodes[c.idx].start
  ELSE LET before == {k \in 1..(c.idx - 1) : nodes[k].type = "entity"}
       IN  IF before = {} THEN 0
           ELSE nodes[CHOOSE k \in before : \A j \in before : j <= k].end

\* C2: selecting the substring at logical offsets [a, b) inside any node of
\* the displayed fragmentation and mapping the range with
\* getRealSelectionRange yields exactly (a, b).
C2_RoundTrip ==
  \A c \in Containers(dom) :
    \A so \in 0..Len(containerText(dom, c)) :
      \A eo \in (so + 1)..Len(containerText(dom, c)) :
        getRealSelectionRange(dom, c, so, c, eo)
          = [start |-> LogicalStart(dom, c) + so,
             end |-> LogicalStart(dom, c) + eo]

\* The kinds of the nodes and the text in each.
View(nodes) ==
  [k \in 1..Len(nodes) |->
     [type |-> nodes[k].type, text |-> textContent(nodes[k])]]

\* C3: the node sequence left by an incremental removal has the same node
\* kinds and the same text in every node as a full renderText of the entity
\* list after the removal.
C3_RemovalEqualsRender ==
  last.op = "remove" =>
    View(dom) = View(renderText(sourceText, entities, badgeField,
                                tooltipField))

\* C4: addEntity returns false and leaves the entity list unchanged whenever
\* the new range [start, end) intersects the range of an existing entity.
C4_RejectsIntersecting ==
  [][(/\ last'.op = "addEntity"
      /\ \E i \in 1..Len(entities) :
           Intersects(entities[i], last'.start, last'.end))
     => (~last'.ret /\ entities' = entities)]_vars

\* C5: in every state reachable by render events, insertions, removals and
\* selected-toggles the entity list is ordered ascending by start.
C5_SortedByStart ==
  \A i \in 1..Len(entities) : \A j \in 1..Len(entities) :
    i < j => entities[i].start <= entities[j].start

\* A selection was accepted whose entity went before one made earlier with
\* the other label.
C5_Witness ==
  /\ last.op = "mouseup" /\ last.ret
  /\ Len(entities) = 2
  /\ entities[1].start = last.start /\ entities[1].end = last.end
  /\ entities[1].start < entities[2].start
  /\ entities[1].label # entities[2].label

\* C6: after a successful addEntity(s, e), an immediately following
\* addEntity with the same range or a range overlapping [s, e) returns false
\* and leaves the entity list as it was after the first call.
C6_IdempotentRejection ==
  [][(/\ last.op = "addEntity" /\ last.ret
      /\ last'.op = "addEntity"
      /\ ~Disjoint(last.start, last.end, last'.start, last'.end))
     => (~last'.ret /\ entities' = entities)]_vars

\* C7: addEntity accepts every range [start, end) with start < end that
\* intersects no existing entity, a range touching an entity at a boundary
\* included: it returns true and the entity is in the list afterwards.
C7_AcceptsDisjoint ==
  [][(/\ last'.op = "addEntity"
      /\ last'.start < last'.end
      /\ \A i \in 1..Len(entities) :
           ~Intersects(entities[i], last'.start, last'.end))
     => (/\ last'.ret
         /\ Len(entities') = Len(entities) + 1
         /\ \E k \in 1..Len(entities') :
              /\ entities'[k].start = last'.start
              /\ entities'[k].end = last'.end
         /\ \A i \in 1..Len(entities) :
              \E k \in 1..Len(entities') : entities'[k] = entities[i])]_vars

\* An accepted range touches an entity on each side.
C7_Witness ==
  /\ last.op = "addEntity" /\ last.ret
  /\ \E i \in 1..Len(entities) : entities[i].end = last.start
  /\ \E i \in 1..Len(entities) : entities[i].start = last.end

\* C8: every entity satisfies 0 <= start < end <= len(SourceText).
C8_WithinText ==
  \A i \in 1..Len(entities) :
    /\ 0 <= entities[i].start
    /\ entities[i].start < entities[i].end
    /\ entities[i].end <= Len(sourceText)

\* The entities of ents whose start and end are not both the given ones.
Others(ents, start, end) ==
  SelectSeq(ents, LAMBDA e : ~(e.start = start /\ e.end = end))

\* C9: removeEntity(start, end) removes exactly the one entity whose start
\* and end both equal the arguments and returns true, the other entities
\* and their order unchanged; when no entity matches exactly it returns
\* false and the entity list is unchanged.
C9_RemovesExactMatch ==
  [][last'.op = "removeEntity"
     => IF \E i \in 1..Len(entities) :
             /\ entities[i].start = last'.start
             /\ entities[i].end = last'.end
        THEN /\ last'.ret
             /\ Len(entities') = Len(entities) - 1
             /\ entities' = Others(entities, last'.start, last'.end)
        ELSE ~last'.ret /\ entities' = entities]_vars

\* An entity was removed, and one that contains its range and one other are
\* still there.
C9_Witness ==
  /\ last.op = "removeEntity" /\ last.ret
  /\ Len(entities) >= 2
  /\ \E i \in 1..Len(entities) :
       entities[i].start <= last.start /\ last.end <= entities[i].end

\* C10: removing an entity node with a text node on both sides leaves one
\* text node in place of the three, holding the previous text, the entity's
\* text and the next text, and nothing of the badge, tooltip or remove
\* button.
C10_MergeKeepsSourceText ==
  [][\A i \in 1..Len(dom) :
       (entityRemoveClick(i) /\ removeCase(dom, i) = "both")
       => (/\ Len(dom') = Len(dom) - 2
           /\ dom'[i - 1] = TextNode(dom[i - 1].text \o dom[i].text
                                     \o dom[i + 1].text))]_vars

RECURSIVE LeadingSpaces(_)
\* The number of white-space characters s begins with.
LeadingSpaces(s) ==
  IF s = <<>> \/ ~IsSpace(Head(s)) THEN 0
  ELSE 1 + LeadingSpaces(Tail(s))

RECURSIVE TrailingSpaces(_)
\* The number of white-space characters s ends with.
TrailingSpaces(s) ==
  IF s = <<>> \/ ~IsSpace(s[Len(s)]) THEN 0
  ELSE 1 + TrailingSpaces(SubSeq(s, 1, Len(s) - 1))

\* C11: for a selection the mouse handler does not ignore, whose text has
\* i leading and j trailing white-space characters, the range the handler
\* passes to addEntity starts i after the mapped start and ends j before the
\* mapped end.
C11_TrimmedRange ==
  \A c \in Containers(dom) :
    \A so \in 0..Len(containerText(dom, c)) :
      \A eo \in so..Len(containerText(dom, c)) :
        LET selText == SubSeq(containerText(dom, c), so + 1, eo)
            raw == getRealSelectionRange(dom, c, so, c, eo)
        IN  ~selectionIgnored(selText, c, c)
            => trimmedRange(raw, selText)
               = [start |-> raw.start + LeadingSpaces(selText),
                  end |-> raw.end - TrailingSpaces(selText)]

\* A selection with white space on both sides was mapped, trimmed on both
\* sides and accepted.
C11_Witness ==
  /\ last.op = "mouseup" /\ last.ret /\ last.trimmedBoth
  /\ \E i \in 1..Len(entities) :
       entities[i].start = last.start /\ entities[i].end = last.end

\* The selection from offset so of container anchor to offset eo of
\* container extent is empty, is white space only, or ends in another node
\* than it starts in.
Malformed(anchor, extent, so, eo) ==
  LET selText == SubSeq(containerText(dom, anchor), so + 1, eo)
  IN  \/ anchor # extent
      \/ Len(selText) = 0
      \/ LeadingSpaces(selText) = Len(selText)

\* C12: a selection that is empty, is white space only, or whose anchor
\* node and focus node differ leaves the entity list and the displayed
\* nodes as they are, and nothing is committed: a step of the mouse handler
\* that changes one of them or commits is the step of no such selection.
C12_MalformedIgnored ==
  [][last'.op \in {"ignored", "mouseup"}
     => \/ (entities' = entities /\ dom' = dom /\ ~committed'.sent)
        \/ \A anchor \in Containers(dom), extent \in Containers(dom) :
             IF anchor = extent
             THEN \A so \in 0..Len(containerText(dom, anchor)) :
                    \A eo \in so..Len(containerText(dom, anchor)) :
                      Malformed(anchor, extent, so, eo)
                      => ~onmouseup(anchor, extent, so, eo)
             ELSE ~onmouseup(anchor, extent, 0, 1)]_vars

\* A selection was ignored while an entity and text around it were
\* displayed.
C12_Witness ==
  /\ last.op = "ignored"
  /\ ~committed.sent
  /\ Len(entities) >= 1
  /\ Len(dom) > Len(entities)

\* What the entity list says of each entity, the node it is shown by left
\* out.
Fields(ents) ==
  [k \in 1..Len(ents) |->
     [start |-> ents[k].start, end |-> ents[k].end, label |-> ents[k].label,
      selected |-> ents[k].selected]]

\* C13: when the mouse handler's range is rejected by addEntity, the entity
\* list is unchanged and the displayed nodes have the same kinds and the
\* same text after the handler as before it.
C13_RejectionKeepsNodes ==
  [][(last'.op = "mouseup" /\ ~last'.ret)
     => (Fields(entities') = Fields(entities)
         /\ View(dom') = View(dom))]_vars

\* C14: a committed value lists the entities of the entity list as it is
\* after the handler, each once and in the list's order, ascending by
\* start, with its start, end, label and selected.
C14_CommitListsEntities ==
  committed.sent
  => /\ Len(committed.value) = Len(entities)
     /\ \A k \in 1..Len(entities) :
          /\ committed.value[k].start = entities[k].start
          /\ committed.value[k].end = entities[k].end
          /\ committed.value[k].label = entities[k].label
          /\ committed.value[k].selected = entities[k].selected
     /\ \A i \in 1..Len(committed.value) : \A j \in 1..Len(committed.value) :
          i < j => committed.value[i].start <= committed.value[j].start

\* A removal was committed that left a selected entity.
C14_Witness ==
  /\ last.op = "remove" /\ committed.sent
  /\ Len(committed.value) = 1
  /\ committed.value[1].selected

HasClicked(i) ==
  \E k \in 1..Len(entities) :
    entities[k].start = dom[i].start /\ entities[k].end = dom[i].end

\* Its label.
ClickedLabel(i) ==
  entities[CHOOSE k \in 1..Len(entities) :
             entities[k].start = dom[i].start
             /\ entities[k].end = dom[i].end].label

\* C16: a click on an entity or its badge flips selected on every entity
\* whose label is the clicked entity's label and on no other, whichever
\* field the badge shows; start, end and label of all entities stay.
C16_ClickTogglesLabel ==
  [][last'.op = "click"
     => \A i \in 1..Len(dom) :
          (dom[i].type = "entity" /\ HasClicked(i) /\ onEntityClick(i))
          => /\ Len(entities') = Len(entities)
             /\ \A k \in 1..Len(entities) :
                  /\ entities'[k].start = entities[k].start
                  /\ entities'[k].end = entities[k].end
                  /\ entities'[k].label = entities[k].label
                  /\ entities'[k].selected
                       = IF entities[k].label = ClickedLabel(i)
                         THEN ~entities[k].selected
                         ELSE entities[k].selected]_vars

\* C17: any two entities with the same label have the same selected flag,
\* in every state reached from a render in which they agree by selections,
\* removals and clicks.
C17_SelectedSharedPerLabel ==
  \A i \in 1..Len(entities) : \A j \in 1..Len(entities) :
    entities[i].label = entities[j].label
    => entities[i].selected = entities[j].selected

\* C18: after a render event every entity of the entity list was delivered
\* by this event (none is left from before), and the displayed nodes are
\* the full render of the new list.
C18_RenderRebuilds ==
  [][last'.op = "render"
     => /\ Len(entities') <= Len(last'.delivered)
        /\ \A k \in 1..Len(entities') :
             \E d \in 1..Len(last'.delivered) :
               /\ entities'[k].start = last'.delivered[d].start
               /\ entities'[k].end = last'.delivered[d].end
               /\ entities'[k].label = last'.delivered[d].label
               /\ entities'[k].selected = last'.delivered[d].selected
        /\ dom' = renderText(sourceText', entities', badgeField',
                             tooltipField')]_vars

\* A render event dropped two entities and delivered one.
C18_Witness ==
  /\ last.op = "render"
  /\ last.discarded = 2
  /\ Len(last.delivered) = 1
  /\ Len(entities) = 1

RECURSIVE Paths(_, _)
\* The paths of the concepts of a forest and of their descendants, a path
\* being the positions from a root down to the concept, under parent.
Paths(concepts, parent) ==
  UNION {{Append(parent, k)}
         \cup Paths(concepts[k].children, Append(parent, k)) :
         k \in 1..Len(concepts)}

RECURSIVE At(_, _)
\* The concept at a path of a forest.
At(concepts, path) ==
  IF Len(path) = 1 THEN concepts[path[1]]
  ELSE At(concepts[path[1]].children, Tail(path))

\* p comes before q in left-to-right pre-order: p is an ancestor of q, or
\* at the first position where they differ p is further left.
Before(p, q) ==
  \E k \in 1..Len(q) :
    /\ \A j \in 1..(k - 1) : j <= Len(p) /\ p[j] = q[j]
    /\ k > Len(p) \/ p[k] < q[k]

\* The code of the concept starts with the query or its label contains it,
\* character by character.
Matches(query, concept) ==
  \/ /\ Len(query) <= Len(concept.code)
     /\ \A k \in 1..Len(query) : concept.code[k] = query[k]
  \/ \E off \in 0..(Len(concept.label) - Len(query)) :
       \A k \in 1..Len(query) : concept.label[off + k] = query[k]

\* The paths of the concepts of a forest that match the query.
MatchPaths(query, concepts) ==
  {p \in Paths(concepts, <<>>) : Matches(query, At(concepts, p))}

\* C19: findNextResult, for the text the input handler last searched for
\* and the concepts of the component, yields exactly the concepts of the
\* forest that match the query, each once, in left-to-right pre-order, and
\* tests a concept whether or not an ancestor of it matched.
C19_PreOrderMatches ==
  searchLast.op = "input" =>
    LET query == lastSearchText.val
        steps == findNextResult(query, sourceConcepts)
        yields == SelectSeq(steps, LAMBDA step : step.yield)
    IN  /\ \A k \in 1..Len(yields) :
             /\ yields[k].path \in MatchPaths(query, sourceConcepts)
             /\ yields[k].code = At(sourceConcepts, yields[k].path).code
             /\ yields[k].label = At(sourceConcepts, yields[k].path).label
        /\ \A p \in MatchPaths(query, sourceConcepts) :
             \E k \in 1..Len(yields) : yields[k].path = p
        /\ \A k \in 1..(Len(yields) - 1) :
             Before(yields[k].path, yields[k + 1].path)

\* A search has run whose results hold a concept and a descendant of it,
\* and a concept below a root that does not match.
C19_Witness ==
  /\ searchLast.op = "input"
  /\ \E i, j \in 1..Len(lastResults) :
       /\ i < j
       /\ Len(lastResults[i].path) < Len(lastResults[j].path)
       /\ SubSeq(lastResults[j].path, 1, Len(lastResults[i].path))
          = lastResults[i].path
  /\ \E k \in 1..Len(lastResults) :
       /\ Len(lastResults[k].path) > 1
       /\ ~Matches(lastSearchText.val,
                   At(sourceConcepts, <<lastResults[k].path[1]>>))

\* The place of path p among the paths S in left-to-right pre-order.
Rank(p, S) ==
  Cardinality({r \in S : Before(r, p)}) + 1

\* The results are the first MAX_RESULTS matches of the query in
\* left-to-right pre-order, or all the matches when there are fewer.
FirstMatches(query, concepts, results) ==
  LET matches == MatchPaths(query, concepts)
  IN  /\ Len(results) <= MAX_RESULTS
      /\ Len(results) = Min(MAX_RESULTS, Cardinality(matches))
      /\ \A k \in 1..Len(results) :
           /\ results[k].path \in matches
           /\ Rank(results[k].path, matches) = k
           /\ results[k].code = At(concepts, results[k].path).code
           /\ results[k].label = At(concepts, results[k].path).label

\* The input handler ran on a text that is not the last one searched for.
QueryChanged ==
  /\ searchLast'.op = "input"
  /\ ~lastSearchText'.null
  /\ lastSearchText.null \/ lastSearchText.val # lastSearchText'.val
  /\ oninput(lastSearchText'.val)

\* C20 as stated: after every query change the result list holds at most
\* 10 concepts and equals the first min(10, m) elements of the pre-order
\* match sequence, m being the number of matches in the forest.
C20_FirstTenAlways ==
  [][QueryChanged
     => FirstMatches(lastSearchText'.val, sourceConcepts', lastResults')]_vars

\* C20: after every change to a query of at least MIN_SEARCH_LEN characters
\* the result list holds at most 10 concepts and equals the first
\* min(10, m) elements of the pre-order match sequence, m being the number
\* of matches in the forest; after a change to a shorter query it is empty.
C20_FirstTen ==
  [][QueryChanged
     => IF Len(lastSearchText'.val) >= MIN_SEARCH_LEN
        THEN FirstMatches(lastSearchText'.val, sourceConcepts',
                          lastResults')
        ELSE lastResults' = <<>>]_vars

\* A search has kept ten of more than ten matches.
C20_Witness ==
  /\ searchLast.op = "input"
  /\ Len(lastResults) = MAX_RESULTS
  /\ Cardinality(MatchPaths(lastSearchText.val, sourceConcepts))
     > MAX_RESULTS

\* C21: once the 10th result has been collected the generator is not run
\* any further: after a search that kept MAX_RESULTS results, the concepts
\* it tested are those up to the 10th match in pre-order and none after it.
C21_StopsAtTenth ==
  (searchLast.op = "input" /\ Len(lastResults) = MAX_RESULTS)
  => searchLast.tested
     <= Rank(lastResults[MAX_RESULTS].path, Paths(sourceConcepts, <<>>))

\* C22: when the input handler runs on a query of fewer than 2 characters no
\* search runs: after it the result list is empty and no result is
\* highlighted, whatever the results and the highlight were before.
C22_ShortQueryClears ==
  [][searchLast'.op = "input"
     => \A value \in Queries :
          (Len(value) < MIN_SEARCH_LEN /\ oninput(value))
          => /\ lastResults' = <<>>
             /\ currentListItem' = NoItem
             /\ indexHidden' = NoIndex
             /\ searchLast'.tested = 0]_vars

\* A query of fewer than 2 characters was typed after a result of an
\* earlier search had been highlighted and confirmed, in a forest where
\* the query has matches.
C22_Witness ==
  /\ searchLast.op = "input"
  /\ Len(lastSearchText.val) < MIN_SEARCH_LEN
  /\ lastSelected # NoConcept
  /\ MatchPaths(lastSearchText.val, sourceConcepts) # {}
  /\ lastResults = <<>>
  /\ currentListItem = NoItem

\* C23: ArrowDown with the list open: with no highlight it highlights
\* result 0 when there is one; from highlighted index i it moves the
\* highlight to i + 1 when i + 1 is less than the number of results, and
\* otherwise leaves it at i.  The list stays open and the results stay.
C23_MoveDown ==
  [][(searchLast'.op = "ArrowDown" /\ ~listHidden /\ onkeydown("ArrowDown"))
     => /\ currentListItem'
           = IF currentListItem = NoItem
             THEN (IF Len(lastResults) > 0 THEN 0 ELSE NoItem)
             ELSE IF currentListItem + 1 < Len(lastResults)
             THEN currentListItem + 1
             ELSE currentListItem
        /\ indexHidden' = currentListItem'
        /\ ~listHidden'
        /\ lastResults' = lastResults]_vars

\* ArrowDown was pressed with the list open and the last of at least three
\* results is highlighted.
C23_Witness ==
  /\ searchLast.op = "ArrowDown"
  /\ ~listHidden
  /\ Len(lastResults) >= 3
  /\ currentListItem = Len(lastResults) - 1

\* A result is highlighted exactly when there are results.
HighlightIffResults ==
  (currentListItem = NoItem) <=> (lastResults = <<>>)

\* C24 as stated: ArrowUp from highlighted index i moves the highlight to
\* i - 1 when i > 0 and leaves it at 0 when i = 0; with no highlight it does
\* nothing.
C24_MoveUpAlways ==
  [][(searchLast'.op = "ArrowUp" /\ onkeydown("ArrowUp"))
     => /\ currentListItem'
           = IF currentListItem > 0 THEN currentListItem - 1
             ELSE currentListItem
        /\ listHidden' = listHidden
        /\ lastResults' = lastResults]_vars

\* C24: with the list open, ArrowUp from highlighted index i moves the
\* highlight to i - 1 when i > 0 and leaves it at 0 when i = 0, and with no
\* highlight it does nothing; with the list closed it changes nothing.
C24_MoveUp ==
  [][(searchLast'.op = "ArrowUp" /\ onkeydown("ArrowUp"))
     => /\ currentListItem'
           = IF ~listHidden /\ currentListItem > 0 THEN currentListItem - 1
             ELSE currentListItem
        /\ indexHidden'
           = IF ~listHidden /\ currentListItem > 0 THEN currentListItem - 1
             ELSE indexHidden
        /\ listHidden' = listHidden
        /\ lastResults' = lastResults]_vars

\* ArrowUp was pressed with the list open and the first of at least three
\* results is highlighted.
C24_Witness ==
  /\ searchLast.op = "ArrowUp"
  /\ ~listHidden
  /\ Len(lastResults) >= 3
  /\ currentListItem = 0

\* A step of confirming: Enter, or a click on a result.
ConfirmStep ==
  \/ searchLast'.op = "Enter" /\ onkeydown("Enter")
  \/ /\ searchLast'.op = "itemclick"
     /\ \E item \in 0..(Len(lastResults) - 1) : resultItemClick(item)

\* C25: confirming (Enter, or clicking a result) while a result is
\* highlighted sets selected to the concept at the highlighted index of the
\* current results, closes the list and commits one value to the host, which
\* holds that concept; with no highlighted result it changes nothing and
\* commits nothing.
C25_Confirm ==
  [][ConfirmStep
     => IF currentListItem # NoItem
        THEN /\ lastSelected' = lastResults[currentListItem + 1]
             /\ listHidden'
             /\ searchCommitted'.sent
             /\ searchCommitted'.value.selected
                = [code |-> lastResults[currentListItem + 1].code,
                   label |-> lastResults[currentListItem + 1].label]
             /\ UNCHANGED <<lastResults, currentListItem>>
        ELSE /\ ~searchCommitted'.sent
             /\ UNCHANGED <<lastSelected, listHidden, chosenLabel,
                            lastResults, currentListItem, lastSearchText>>]_vars

\* Enter was pressed with a result other than the first highlighted, whose
\* code or label is not that of the first: it is selected, the list is
\* closed and a value was committed.
C25_Witness ==
  /\ searchLast.op = "Enter"
  /\ currentListItem >= 1
  /\ lastResults[currentListItem + 1].code # lastResults[1].code
  /\ lastSelected = lastResults[currentListItem + 1]
  /\ listHidden
  /\ searchCommitted.sent

\* C26: Escape, and the input losing focus while no result is hovered, close
\* the list; the input losing focus while a result is hovered leaves the
\* list as it is; none of them changes selected or commits a value.
C26_CloseWithoutSelecting ==
  [][(\/ searchLast'.op = "Escape" /\ onkeydown("Escape")
      \/ searchLast'.op = "blur" /\ onblur)
     => /\ listHidden' = IF searchLast'.op = "blur" /\ hoveredListItem # NoItem
                         THEN listHidden
                         ELSE TRUE
        /\ lastSelected' = lastSelected
        /\ chosenLabel' = chosenLabel
        /\ ~searchCommitted'.sent]_vars

\* The input lost focus while the mouse was over no result and a result
\* other than the selected concept was highlighted: the list is closed and
\* the selected concept is still the one confirmed before.
C26_Witness ==
  /\ searchLast.op = "blur"
  /\ hoveredListItem = NoItem
  /\ listHidden
  /\ lastSelected # NoConcept
  /\ currentListItem # NoItem
  /\ lastResults[currentListItem + 1] # lastSelected
  /\ ~searchCommitted.sent

\* C27: when the input handler runs on a text that is not the last one
\* searched for, the results are those of the new text and the highlight is
\* on the first result when there is one and on none otherwise, whatever was
\* highlighted before; when it runs on the last text searched for, results
\* and highlight are unchanged.
C27_InputResets ==
  [][searchLast'.op = "input"
     => \A value \in Queries :
          oninput(value)
          => IF lastSearchText.null \/ value # lastSearchText.val
             THEN /\ lastSearchText' = Text(value)
                  /\ IF Len(value) >= MIN_SEARCH_LEN
                     THEN FirstMatches(value, sourceConcepts, lastResults')
                     ELSE lastResults' = <<>>
                  /\ currentListItem'
                     = IF lastResults' # <<>> THEN 0 ELSE NoItem
                  /\ indexHidden' = currentListItem'
             ELSE UNCHANGED <<lastResults, currentListItem, indexHidden>>]_vars

\* A search has run and its first result is highlighted, while the mouse
\* was last over a later result of an earlier search, which was highlighted
\* then.
C27_Witness ==
  /\ searchLast.op = "input"
  /\ searchLast.tested > 0
  /\ Len(lastResults) >= 1
  /\ currentListItem = 0
  /\ hoveredListItem >= 1

\* C28: the forest is reloaded on each render event of the host: after a
\* render event the concepts searched are those the event delivered.
C28_RenderReloads ==
  [][searchLast'.op = "render"
     => \A concepts \in Forests :
          searchOnRender(concepts)
          => sourceConcepts'
             = [k \in 1..Len(concepts) |-> fromDict(concepts[k])]]_vars

\* C29: every value the search component commits has selected equal to a
\* concept contained in the results of the same value, the one at the
\* highlighted index, and searchText equal to the query that produced those
\* results: they are the first matches of searchText in the forest.
C29_CommittedValue ==
  searchCommitted.sent
  => LET value == searchCommitted.value
         matches == MatchPaths(value.searchText, sourceConcepts)
     IN  /\ \E k \in 1..Len(value.results) :
              value.results[k] = value.selected
         /\ currentListItem \in 0..(Len(value.results) - 1)
         /\ value.selected = value.results[currentListItem + 1]
         /\ value.searchText = lastSearchText.val
         /\ Len(value.searchText) >= MIN_SEARCH_LEN
         /\ Len(value.results) = Min(MAX_RESULTS, Cardinality(matches))
         /\ \A k \in 1..Len(value.results) :
              \E p \in matches :
                /\ Rank(p, matches) = k
                /\ value.results[k]
                   = [code |-> At(sourceConcepts, p).code,
                      label |-> At(sourceConcepts, p).label]

\* A value was committed whose selected concept is not the first of its
\* results.
C29_Witness ==
  /\ searchCommitted.sent
  /\ currentListItem >= 1
  /\ searchCommitted.value.selected # searchCommitted.value.results[1]
  /\ searchCommitted.value.selected
     = searchCommitted.value.results[currentListItem + 1]

\* C30: a mouse selection made entirely inside the text of an entity never
\* adds an entity and commits nothing: a step of the mouse handler that
\* changes the entity list or commits is the step of no such selection.
C30_InnerSelectionRejected ==
  [][last'.op \in {"ignored", "mouseup"}
     => \/ (Fields(entities') = Fields(entities) /\ ~committed'.sent)
        \/ \A c \in Containers(dom) :
             c.inner
             => \A so \in 0..Len(containerText(dom, c)) :
                  \A eo \in so..Len(containerText(dom, c)) :
                    ~onmouseup(c, c, so, eo)]_vars

\* C31: for a range that starts in one child of the text container and ends
\* in a later one, getRealSelectionRange returns as start the start offset
\* plus the text lengths of the children before the start container, and as
\* end the offset of the end point in the source text: the text lengths of
\* the children before the end container plus the end offset.
C31_RangeAcrossSiblings ==
  \A sc \in Containers(dom), ec \in Containers(dom) :
    (~sc.inner /\ ~ec.inner /\ sc.idx < ec.idx)
    => \A so \in 0..Len(containerText(dom, sc)) :
         \A eo \in 0..Len(containerText(dom, ec)) :
           getRealSelectionRange(dom, sc, so, ec, eo)
           = [start |-> so + SumText(dom, 1, sc.idx - 1),
              end |-> eo + SumText(dom, 1, ec.idx - 1)]

RECURSIVE NodesText(_)
\* The relevant texts (getNodeText) of the nodes, one after the other.
NodesText(nodes) ==
  IF nodes = <<>> THEN <<>>
  ELSE getNodeText(Head(nodes)) \o NodesText(Tail(nodes))

\* C32: in every state reached by render events, insertions and removals,
\* the relevant texts of the children of the text container, one after the
\* other, are the source text.
C32_NodesSpellSourceText ==
  NodesText(dom) = sourceText

\* The entity nodes among the children of the text container, in order.
EntityNodes(nodes) ==
  SelectSeq(nodes, LAMBDA node : node.type = "entity")

\* The characters of the text at the offsets from start up to end.
SpanText(text, start, end) ==
  LET from == Min(start, Len(text))
      to == Min(end, Len(text))
  IN  [k \in 1..(to - from) |-> text[from + k]]

\* C33: between handlers the entity nodes displayed correspond one to one
\* and in the same order with the entities of the list: each node shows the
\* text of its entity's span and carries the selected mark exactly when the
\* entity's selected flag is true.
C33_NodesMatchEntities ==
  LET nodes == EntityNodes(dom)
  IN  /\ Len(nodes) = Len(entities)
      /\ \A k \in 1..Len(nodes) :
           /\ nodes[k].start = entities[k].start
           /\ nodes[k].end = entities[k].end
           /\ nodes[k].text
              = SpanText(sourceText, entities[k].start, entities[k].end)
           /\ nodes[k].selected = entities[k].selected

\* An entity was clicked and, of the entities displayed, one is selected and
\* marked and another is neither.
C33_Witness ==
  /\ last.op = "click"
  /\ \E i, j \in 1..Len(entities) :
       /\ entities[i].selected /\ EntityNodes(dom)[i].selected
       /\ ~entities[j].selected /\ ~EntityNodes(dom)[j].selected

\* removeEntity finds the entity of every entity node displayed: a click on
\* a remove button never misses.
RemovalAlwaysFinds ==
  \A i \in 1..Len(dom) :
    dom[i].type = "entity"
    => removeEntity(entities, dom[i].start, dom[i].end).ret

\* C35: while the result list is closed, the Enter key does not change
\* selected and commits nothing.
C35_ClosedListIgnoresEnter ==
  [][(searchLast'.op = "Enter" /\ listHidden /\ onkeydown("Enter"))
     => (lastSelected' = lastSelected /\ ~searchCommitted'.sent)]_vars

\* C36: in every reachable state of the search component the highlighted
\* item, when there is one, is an item of the current result list and the
\* stored index confirm uses equals its position, so
\* 0 <= index < number of results; when no item is highlighted a confirm (the
\* Enter key or a click on a result) selects nothing: selected stays as it
\* was and nothing is committed.
C36_HighlightInRange ==
  /\ currentListItem # NoItem
     => /\ currentListItem \in 0..(Len(lastResults) - 1)
        /\ indexHidden = currentListItem
  /\ currentListItem = NoItem
     => /\ ~ENABLED (onkeydown("Enter") /\ lastSelected' # lastSelected)
        /\ ~ENABLED (onkeydown("Enter") /\ searchCommitted'.sent)
        /\ \A item \in 0..(MAX_RESULTS - 1) :
             /\ ~ENABLED (resultItemClick(item) /\ lastSelected' # lastSelected)
             /\ ~ENABLED (resultItemClick(item) /\ searchCommitted'.sent)

\* Hovering has highlighted a result other than the first, and the stored
\* index is its position.
C36_Witness ==
  /\ searchLast.op = "mouseover"
  /\ currentListItem >= 1
  /\ currentListItem < Len(lastResults)
  /\ indexHidden = currentListItem
====
